---- MODULE Spec2Model ----
(***************************************************************************)
(* Model of cmd/trace/pprof.go: the four pprof-like analyses (pprofIO,     *)
(* pprofBlock, pprofSyscall, pprofSched) that aggregate trace events into  *)
(* Records keyed by stack ID, and buildProfile, which turns the Record map *)
(* into a profile.Profile with deduplicated Function and Location lists.   *)
(***************************************************************************)
EXTENDS Integers, Sequences, FiniteSets, TLC

VARIABLES
    pc,       \* position in the entry point: parse, aggregate, build, write, done
    kind,     \* which of the four entry points runs
    input,    \* the events parseEvents yields when it succeeds
    err,      \* the error parseEvents returned ("nil" when none)
    events,   \* the local variable events
    i,        \* number of events the range loop has consumed
    prof,     \* map[uint64]Record
    bld,      \* buildProfile's locals: p, locs, funcs, sloc and the heap objects
    todo,     \* keys of prof the range loop of buildProfile has not visited
    done,     \* keys of prof already visited, in iteration order
    cur,      \* key of the Record being processed (0: between Records)
    j,        \* number of frames of the current Record consumed
    ret,      \* the entry point's return value ("running" until it returns)
    out       \* what has been written to the io.Writer

vars == <<pc, kind, input, err, events, i, prof, bld, todo, done, cur, j, ret, out>>

----------------------------------------------------------------------------
(* Bounds of the model *)

MaxEvents == 3
MaxFrames == 3

----------------------------------------------------------------------------
(* Trace events (internal/trace), as far as pprof.go reads them *)

EvGoBlockNet    == "EvGoBlockNet"
EvGoBlockSend   == "EvGoBlockSend"
EvGoBlockRecv   == "EvGoBlockRecv"
EvGoBlockSelect == "EvGoBlockSelect"
EvGoBlockSync   == "EvGoBlockSync"
EvGoBlockCond   == "EvGoBlockCond"
EvGoSysCall     == "EvGoSysCall"
EvGoUnblock     == "EvGoUnblock"
EvGoCreate      == "EvGoCreate"
EvGoStart       == "EvGoStart"

EventTypes ==
    {EvGoBlockNet, EvGoBlockSend, EvGoBlockRecv, EvGoBlockSelect, EvGoBlockSync,
     EvGoBlockCond, EvGoSysCall, EvGoUnblock, EvGoCreate, EvGoStart}

Kinds == {"io", "block", "syscall", "sched"}

\* A nil *trace.Event is the empty sequence, a non-nil one a one-element sequence.
NilLink == <<>>

LinkTo(ts) == <<[Ts |-> ts]>>

\* Frames are value data: any pc may come with any file, function and line.
PCs   == {1, 2}

Files == {"a", "ab"}

Fns   == {"bc", "c"}

LineAt(pcv, file) == 10 * pcv + Len(file)

Frames == {[PC |-> a, File |-> f, Fn |-> n, Line |-> LineAt(a, f)] : a \in PCs, f \in Files, n \in Fns}

Frame(a, f, n) == [PC |-> a, File |-> f, Fn |-> n, Line |-> LineAt(a, f)]

Event(type, ts, link, id, stk) == [Type |-> type, Ts |-> ts, Link |-> link, StkID |-> id, Stk |-> stk]

----------------------------------------------------------------------------
(* Record and the aggregation loops *)

\* The zero value a map lookup yields for a missing key.
ZeroRecord == [stk |-> <<>>, n |-> 0, time |-> 0]

EmptyMap == [k \in {} |-> ZeroRecord]

Lookup(m, k) == IF k \in DOMAIN m THEN m[k] ELSE ZeroRecord

Store(m, k, v) == [x \in DOMAIN m \cup {k} |-> IF x = k THEN v ELSE m[x]]

\* pprofIO's condition with the test of ev.StkID left out.
MutSkipIO(ev) == ev.Type # EvGoBlockNet \/ ev.Link = NilLink \/ Len(ev.Stk) = 0

\* The condition under which each loop does `continue`.
SkipIO(ev) == ev.Type # EvGoBlockNet \/ ev.Link = NilLink \/ ev.StkID = 0 \/ Len(ev.Stk) = 0

SkipBlock(ev) ==
    IF ev.Type \in {EvGoBlockSend, EvGoBlockRecv, EvGoBlockSelect, EvGoBlockSync, EvGoBlockCond}
    THEN ev.Link = NilLink \/ ev.StkID = 0 \/ Len(ev.Stk) = 0
    ELSE TRUE

SkipSyscall(ev) == ev.Type # EvGoSysCall \/ ev.Link = NilLink \/ ev.StkID = 0 \/ Len(ev.Stk) = 0

SkipSched(ev) ==
    (ev.Type # EvGoUnblock /\ ev.Type # EvGoCreate)
    \/ ev.Link = NilLink \/ ev.StkID = 0 \/ Len(ev.Stk) = 0

Skip(k, ev) ==
    CASE k = "io"      -> SkipIO(ev)
      [] k = "block"   -> SkipBlock(ev)
      [] k = "syscall" -> SkipSyscall(ev)
      [] k = "sched"   -> SkipSched(ev)

\* Accumulate with a negative duration clamped to zero.
MutAccumulateClamped(rec, ev) ==
    [stk |-> ev.Stk, n |-> rec.n + 1,
     time |-> rec.time + (IF ev.Link[1].Ts < ev.Ts THEN 0 ELSE ev.Link[1].Ts - ev.Ts)]

\* Accumulate that sets the stack only when the Record has none yet.
MutAccumulateKeepFirst(rec, ev) ==
    [stk |-> IF rec.stk = <<>> THEN ev.Stk ELSE rec.stk, n |-> rec.n + 1,
     time |-> rec.time + (ev.Link[1].Ts - ev.Ts)]

\* Accumulate with rec.time = instead of rec.time +=.
MutAccumulateAssignTime(rec, ev) ==
    [stk |-> ev.Stk, n |-> rec.n + 1, time |-> ev.Link[1].Ts - ev.Ts]

\* rec := prof[ev.StkID]; rec.stk = ev.Stk; rec.n++; rec.time += ev.Link.Ts - ev.Ts
Accumulate(rec, ev) ==
    [stk |-> ev.Stk, n |-> rec.n + 1, time |-> rec.time + (ev.Link[1].Ts - ev.Ts)]

\* One iteration of the range loop over events.
AggStep(k, m, ev) ==
    IF Skip(k, ev) THEN m ELSE Store(m, ev.StkID, Accumulate(Lookup(m, ev.StkID), ev))

RECURSIVE AggAll(_, _, _)
AggAll(k, m, evs) ==
    IF evs = <<>> THEN m ELSE AggAll(k, AggStep(k, m, Head(evs)), Tail(evs))

----------------------------------------------------------------------------
(* buildProfile.  Pointers are heap addresses: fnHeap and locHeap hold the   *)
(* allocated profile.Function and profile.Location objects in allocation    *)
(* order, and a pointer is the object's position in its heap.               *)

\* State of buildProfile before it is called.
NoBuilder ==
    [called |-> FALSE, PeriodType |-> <<>>, Period |-> 0, SampleType |-> <<>>,
     Function |-> <<>>, Location |-> <<>>, Sample |-> <<>>,
     fnHeap |-> <<>>, locHeap |-> <<>>, locs |-> <<>>, funcs |-> <<>>,
     fn |-> 0, loc |-> 0, sloc |-> <<>>]

\* p := &profile.Profile{...}; locs := make(...); funcs := make(...)
NewBuilder ==
    [called |-> TRUE,
     PeriodType |-> <<"trace", "count">>, Period |-> 1,
     SampleType |-> << <<"contentions", "count">>, <<"delay", "nanoseconds">> >>,
     Function |-> <<>>, Location |-> <<>>, Sample |-> <<>>,
     fnHeap |-> <<>>, locHeap |-> <<>>,
     locs |-> [k \in {} |-> 0], funcs |-> [k \in {} |-> 0],
     fn |-> 0, loc |-> 0, sloc |-> <<>>]

\* The key of the funcs map: frame.File+frame.Fn, a string concatenation.
FuncKey(frame) == frame.File \o frame.Fn

\* NewFunction with ID: uint64(len(p.Function)), the + 1 left out.
MutNewFunction(b, frame) ==
    [ID |-> Len(b.Function), Name |-> frame.Fn, SystemName |-> frame.Fn,
     Filename |-> frame.File]

NewFunction(b, frame) ==
    [ID |-> Len(b.Function) + 1, Name |-> frame.Fn, SystemName |-> frame.Fn,
     Filename |-> frame.File]

NewLocation(b, frame, fn) ==
    [ID |-> Len(b.Location) + 1, Address |-> frame.PC,
     Line |-> <<[Function |-> fn, Line |-> frame.Line]>>]

\* fn := funcs[frame.File+frame.Fn]
\* if fn == nil { fn = &profile.Function{...}; p.Function = append(p.Function, fn); funcs[...] = fn }
WithFunction(b, frame) ==
    IF FuncKey(frame) \in DOMAIN b.funcs
    THEN [b EXCEPT !.fn = b.funcs[FuncKey(frame)]]
    ELSE LET ptr == Len(b.fnHeap) + 1
         IN  [b EXCEPT !.fnHeap = Append(@, NewFunction(b, frame)),
                       !.fn = ptr,
                       !.Function = Append(@, ptr),
                       !.funcs = Store(@, FuncKey(frame), ptr)]

\* WithLocation with locs[frame.PC] = loc left out.
MutWithLocation(b, frame) ==
    IF frame.PC \in DOMAIN b.locs
    THEN [b EXCEPT !.loc = b.locs[frame.PC]]
    ELSE LET b1  == WithFunction(b, frame)
             ptr == Len(b1.locHeap) + 1
         IN  [b1 EXCEPT !.locHeap = Append(@, NewLocation(b1, frame, b1.fn)),
                        !.loc = ptr,
                        !.Location = Append(@, ptr)]

\* loc := locs[frame.PC]
\* if loc == nil { fn...; loc = &profile.Location{...}; p.Location = append(p.Location, loc); locs[frame.PC] = loc }
WithLocation(b, frame) ==
    IF frame.PC \in DOMAIN b.locs
    THEN [b EXCEPT !.loc = b.locs[frame.PC]]
    ELSE LET b1  == WithFunction(b, frame)
             ptr == Len(b1.locHeap) + 1
         IN  [b1 EXCEPT !.locHeap = Append(@, NewLocation(b1, frame, b1.fn)),
                        !.loc = ptr,
                        !.Location = Append(@, ptr),
                        !.locs = Store(@, frame.PC, ptr)]

\* One iteration of the loop over rec.stk, ending in sloc = append(sloc, loc).
FrameStep(b, frame) ==
    LET b2 == WithLocation(b, frame)
    IN  [b2 EXCEPT !.sloc = Append(@, b2.loc)]

SampleOf(rec, sloc) == [Value |-> <<rec.n, rec.time>>, Location |-> sloc]

\* p.Sample = append(p.Sample, &profile.Sample{...})
WithSample(b, rec) == [b EXCEPT !.Sample = Append(@, SampleOf(rec, b.sloc))]

RECURSIVE FrameLoop(_, _)
FrameLoop(b, stk) ==
    IF stk = <<>> THEN b ELSE FrameLoop(FrameStep(b, Head(stk)), Tail(stk))

\* The body of the loop over prof for one Record.
RecordStep(b, rec) == WithSample(FrameLoop([b EXCEPT !.sloc = <<>>], rec.stk), rec)

\* buildProfile(m) when the map is iterated in the given order of its keys.
RECURSIVE BuildOver(_, _, _)
BuildOver(b, m, order) ==
    IF order = <<>> THEN b ELSE BuildOver(RecordStep(b, m[Head(order)]), m, Tail(order))

BuildProfile(m, order) == BuildOver(NewBuilder, m, order)

\* The *profile.Profile handed to Write: the lists with the objects they point to.
ProfileOf(b) ==
    [PeriodType |-> b.PeriodType, Period |-> b.Period, SampleType |-> b.SampleType,
     Function |-> [x \in 1..Len(b.Function) |-> b.fnHeap[b.Function[x]]],
     Location |-> [x \in 1..Len(b.Location) |-> b.locHeap[b.Location[x]]],
     Sample |-> b.Sample]

----------------------------------------------------------------------------
(* Inputs *)

ParseErrors == {"ErrBadTrace", "ErrNoTraceFile"}

WriteErrors == {"ErrShortWrite"}

\* The error of parseEvents swallowed: return nil.
MutOnParseError(e) == "nil"

\* return err, after parseEvents failed
OnParseError(e) == e

\* The first event type of each analysis's condition.
RowHead(k) ==
    CASE k = "io"      -> EvGoBlockNet
      [] k = "block"   -> EvGoBlockSend
      [] k = "syscall" -> EvGoSysCall
      [] k = "sched"   -> EvGoUnblock

StackA == <<Frame(1, "a", "bc")>>

StackB == <<Frame(1, "a", "bc"), Frame(2, "ab", "c")>>

SeqsUpTo(S, n) == UNION {[1..m -> S] : m \in 0..n}

\* Events of the analysis's own type: linked events with two stack IDs, two
\* stacks and a link before or after the event, and one event without link.
AggEvents(k) ==
    {Event(RowHead(k), 5, l, id, s) :
        l \in {LinkTo(3), LinkTo(8)}, id \in {1, 2}, s \in {StackA, StackB}}
    \cup {Event(RowHead(k), 5, NilLink, 1, StackA)}

\* Events of every type, each with or without link, stack ID and stack.
FilterEvents ==
    {Event(t, 5, l, id, s) :
        t \in EventTypes, l \in {NilLink, LinkTo(8)}, id \in {0, 1}, s \in {<<>>, StackA}}

AggInputs(k) ==
    SeqsUpTo(AggEvents(k), MaxEvents)
    \cup {Append(pre, e) :
            pre \in SeqsUpTo({Event(RowHead(k), 5, LinkTo(8), 1, StackA)}, MaxEvents - 1),
            e \in FilterEvents}

\* Record k of a build input holds the k-th chunk of a frame sequence fs cut
\* after the positions in cuts.
ChunkOf(cuts, p) == 1 + Cardinality({c \in cuts : c < p})

Chunk(fs, cuts, k) ==
    LET P  == {p \in 1..Len(fs) : ChunkOf(cuts, p) = k}
        lo == CHOOSE p \in P : \A q \in P : p <= q
    IN  [x \in 1..Cardinality(P) |-> fs[lo + x - 1]]

BuildInputs ==
    {[k \in 1..(Cardinality(cuts) + 1) |->
            Event(EvGoBlockNet, 5, LinkTo(8), k, Chunk(fs, cuts, k))] :
        fs \in SeqsUpTo(Frames, MaxFrames) \ {<<>>},
        cuts \in SUBSET (1..(MaxFrames - 1))}

----------------------------------------------------------------------------
(* The entry points *)

InitWith(k, in) ==
    /\ pc = "parse"
    /\ kind = k
    /\ input = in
    /\ err = "nil"
    /\ events = <<>>
    /\ i = 0
    /\ prof = EmptyMap
    /\ bld = NoBuilder
    /\ todo = {}
    /\ done = <<>>
    /\ cur = 0
    /\ j = 0
    /\ ret = "running"
    /\ out = <<>>

Init == \E k \in Kinds : \E in \in AggInputs(k) : InitWith(k, in)

InitBuild == \E in \in BuildInputs \cup {<<>>} : InitWith("io", in)

\* A trace as symbolization yields it: a pc always comes with the same file,
\* function and line.
PcDeterminesFrame(in) ==
    \A x, y \in 1..Len(in) : \A p \in 1..Len(in[x].Stk) : \A q \in 1..Len(in[y].Stk) :
        in[x].Stk[p].PC = in[y].Stk[q].PC => in[x].Stk[p] = in[y].Stk[q]

InitSymbolized ==
    \E in \in {x \in BuildInputs \cup {<<>>} : PcDeterminesFrame(x)} : InitWith("io", in)

\* events, err := parseEvents(); if err != nil { return err }
ParseFail ==
    /\ pc = "parse"
    /\ \E e \in ParseErrors :
         /\ err' = e
         /\ ret' = OnParseError(e)
    /\ pc' = "done"
    /\ UNCHANGED <<kind, input, events, i, prof, bld, todo, done, cur, j, out>>

\* parseEvents succeeded; prof := make(map[uint64]Record)
ParseOK ==
    /\ pc = "parse"
    /\ events' = input
    /\ err' = "nil"
    /\ prof' = EmptyMap
    /\ i' = 0
    /\ pc' = "aggregate"
    /\ UNCHANGED <<kind, input, bld, todo, done, cur, j, ret, out>>

\* One iteration of `for _, ev := range events`.
Aggregate ==
    /\ pc = "aggregate"
    /\ i < Len(events)
    /\ prof' = AggStep(kind, prof, events[i + 1])
    /\ i' = i + 1
    /\ UNCHANGED <<pc, kind, input, err, events, bld, todo, done, cur, j, ret, out>>

\* The loop is over: buildProfile(prof) is called and sets up p, locs and funcs.
CallBuildProfile ==
    /\ pc = "aggregate"
    /\ i = Len(events)
    /\ bld' = NewBuilder
    /\ todo' = DOMAIN prof
    /\ done' = <<>>
    /\ cur' = 0
    /\ j' = 0
    /\ pc' = "build"
    /\ UNCHANGED <<kind, input, err, events, i, prof, ret, out>>

\* `for _, rec := range prof` yields the next Record, in any order; var sloc.
NextRecord ==
    /\ pc = "build"
    /\ cur = 0
    /\ \E k \in todo :
         /\ cur' = k
         /\ todo' = todo \ {k}
    /\ j' = 0
    /\ bld' = [bld EXCEPT !.sloc = <<>>]
    /\ UNCHANGED <<pc, kind, input, err, events, i, prof, done, ret, out>>

\* One iteration of `for _, frame := range rec.stk`.
BuildFrame ==
    /\ pc = "build"
    /\ cur # 0
    /\ j < Len(prof[cur].stk)
    /\ bld' = FrameStep(bld, prof[cur].stk[j + 1])
    /\ j' = j + 1
    /\ UNCHANGED <<pc, kind, input, err, events, i, prof, todo, done, cur, ret, out>>

\* The frames of the Record are done: its Sample is appended.
AppendSample ==
    /\ pc = "build"
    /\ cur # 0
    /\ j = Len(prof[cur].stk)
    /\ bld' = WithSample(bld, prof[cur])
    /\ done' = Append(done, cur)
    /\ cur' = 0
    /\ UNCHANGED <<pc, kind, input, err, events, i, prof, todo, j, ret, out>>

\* return p
ReturnProfile ==
    /\ pc = "build"
    /\ cur = 0
    /\ todo = {}
    /\ pc' = "write"
    /\ UNCHANGED <<kind, input, err, events, i, prof, bld, todo, done, cur, j, ret, out>>

\* return buildProfile(prof).Write(w), the writer accepting the bytes
WriteOK ==
    /\ pc = "write"
    /\ out' = Append(out, ProfileOf(bld))
    /\ ret' = "nil"
    /\ pc' = "done"
    /\ UNCHANGED <<kind, input, err, events, i, prof, bld, todo, done, cur, j>>

\* return buildProfile(prof).Write(w), the writer failing
WriteFail ==
    /\ pc = "write"
    /\ \E e \in WriteErrors : ret' = e
    /\ pc' = "done"
    /\ UNCHANGED <<kind, input, err, events, i, prof, bld, todo, done, cur, j, out>>

Next ==
    \/ ParseFail
    \/ ParseOK
    \/ Aggregate
    \/ CallBuildProfile
    \/ NextRecord
    \/ BuildFrame
    \/ AppendSample
    \/ ReturnProfile
    \/ WriteOK
    \/ WriteFail

Spec == Init /\ [][Next]_vars

SpecBuild == InitBuild /\ [][Next]_vars

SpecSymbolized == InitSymbolized /\ [][Next]_vars

----------------------------------------------------------------------------
(* What the claims speak of *)

\* The matching table: the event types each analysis retains.
Row(k) ==
    CASE k = "io"      -> {EvGoBlockNet}
      [] k = "block"   -> {EvGoBlockSend, EvGoBlockRecv, EvGoBlockSelect, EvGoBlockSync,
                           EvGoBlockCond}
      [] k = "syscall" -> {EvGoSysCall}
      [] k = "sched"   -> {EvGoUnblock, EvGoCreate}

\* An event the analysis must retain: its type in the row, a link, a stack ID, a stack.
Retained(k, ev) ==
    /\ ev.Type \in Row(k)
    /\ ev.Link # NilLink
    /\ ev.StkID # 0
    /\ ev.Stk # <<>>

\* Positions among the first n events that hold a retained event of stack ID id.
RetainedAt(n, id) == {x \in 1..n : Retained(kind, events[x]) /\ events[x].StkID = id}

RetainedIDs(n) == {events[x].StkID : x \in {y \in 1..n : Retained(kind, events[y])}}

RECURSIVE SumDurations(_)
SumDurations(S) ==
    IF S = {} THEN 0
    ELSE LET x == CHOOSE y \in S : TRUE
         IN  (events[x].Link[1].Ts - events[x].Ts) + SumDurations(S \ {x})

Min(S) == CHOOSE x \in S : \A y \in S : x <= y

Max(S) == CHOOSE x \in S : \A y \in S : x >= y

Aggregating == err = "nil" /\ pc = "aggregate"

\* C1: an event outside the analysis's row, or with a nil link, stack ID 0 or an
\* empty stack, leaves the Record map as it is; an event that passes all four
\* tests is retained: its Record exists afterwards with its count one higher,
\* and no other Record changes.
C1_FilterExact ==
    [][(pc = "aggregate" /\ i' = i + 1) =>
        LET ev == events[i + 1]
        IN  IF Retained(kind, ev)
            THEN /\ DOMAIN prof' = DOMAIN prof \cup {ev.StkID}
                 /\ prof'[ev.StkID].n = Lookup(prof, ev.StkID).n + 1
                 /\ \A k \in DOMAIN prof \ {ev.StkID} : prof'[k] = prof[k]
            ELSE prof' = prof]_vars

\* C1 witness: a Record exists, and the event just consumed was one to skip
\* although a retained event came right before it.
C1_Witness ==
    /\ Aggregating
    /\ i >= 2
    /\ Retained(kind, events[i - 1])
    /\ ~Retained(kind, events[i])
    /\ events[i].Type \in Row(kind)
    /\ DOMAIN prof # {}

\* C2: after any number of events, the map holds exactly one Record per stack ID
\* of the retained events, its count the number of those events and its time
\* the signed sum of link.Ts - Ts over them.
C2_OneRecordPerStack ==
    Aggregating =>
        /\ DOMAIN prof = RetainedIDs(i)
        /\ \A id \in DOMAIN prof :
             /\ prof[id].n = Cardinality(RetainedAt(i, id))
             /\ prof[id].time = SumDurations(RetainedAt(i, id))

\* C2 witness: a Record that sums two events to a negative time, beside a
\* Record of another stack ID.
C2_Witness ==
    /\ Aggregating
    /\ \E id \in DOMAIN prof : prof[id].n = 2 /\ prof[id].time < 0
    /\ Cardinality(DOMAIN prof) = 2

\* C7: when parseEvents fails the entry point returns that error, no Record map
\* or Profile is built and nothing is written; when it succeeds, no error
\* arises before the Profile is written.
C7_ParseErrorPropagated ==
    /\ err # "nil" =>
         /\ pc = "done"
         /\ ret = err
         /\ out = <<>>
         /\ prof = EmptyMap /\ i = 0
         /\ ~bld.called
    /\ (err = "nil" /\ pc \in {"aggregate", "build", "write"}) => ret = "running"
    /\ (err = "nil" /\ pc = "done") => ret \in {"nil"} \cup WriteErrors
    /\ out # <<>> => (err = "nil" /\ ret = "nil" /\ out = <<ProfileOf(bld)>>)

\* C7 witness: parseEvents has failed and the entry point has returned.
C7_Witness == pc = "done" /\ err \in ParseErrors /\ input # <<>>

\* C8 as claimed: the Record's stack is the stack of the first retained event
\* of its stack ID.
C8_FirstStackKept ==
    Aggregating =>
        \A id \in DOMAIN prof : prof[id].stk = events[Min(RetainedAt(i, id))].Stk

\* C8 amended: the Record's stack is the stack of the last retained event of
\* its stack ID consumed so far; the count and time still accumulate.
C8_LastStackKept ==
    Aggregating =>
        \A id \in DOMAIN prof :
            /\ RetainedAt(i, id) # {}
            /\ prof[id].stk = events[Max(RetainedAt(i, id))].Stk
            /\ prof[id].n = Cardinality(RetainedAt(i, id))

\* C8 witness: two retained events of one stack ID with different stacks.
C8_Witness ==
    /\ Aggregating
    /\ \E id \in DOMAIN prof : \E x, y \in RetainedAt(i, id) :
         x < y /\ events[x].Stk # events[y].Stk

\* The permutations of 1..n, for every length an input may have.
PermutationsByLength ==
    [n \in 0..MaxEvents |-> {f \in [1..n -> 1..n] : \A x, y \in 1..n : f[x] = f[y] => x = y}]

IndexPermutations(n) == PermutationsByLength[n]

Permuted(evs, f) == [x \in 1..Len(evs) |-> evs[f[x]]]

AllEventsConsumed == Aggregating /\ i = Len(events)

\* C9 as claimed: every permutation of the events aggregates to the same
\* Record map, stacks included.
C9_OrderIndependent ==
    AllEventsConsumed =>
        \A f \in IndexPermutations(Len(events)) :
            AggAll(kind, EmptyMap, Permuted(events, f)) = prof

\* All retained events of stack ID id carry the same stack.
OneStackFor(id) ==
    \A x, y \in RetainedAt(Len(events), id) : events[x].Stk = events[y].Stk

\* C9 amended: every permutation aggregates to the same stack IDs with the same
\* counts and times; the stacks agree for each stack ID whose retained events
\* all carry the same stack.
C9_CountsOrderIndependent ==
    AllEventsConsumed =>
        \A f \in IndexPermutations(Len(events)) :
            LET q == AggAll(kind, EmptyMap, Permuted(events, f))
            IN  /\ DOMAIN q = DOMAIN prof
                /\ \A id \in DOMAIN prof :
                     /\ q[id].n = prof[id].n
                     /\ q[id].time = prof[id].time
                     /\ OneStackFor(id) => q[id].stk = prof[id].stk

\* C9 witness: all events consumed, among them two retained events of one
\* stack ID with different durations and one event that was skipped.
C9_Witness ==
    /\ AllEventsConsumed
    /\ \E id \in DOMAIN prof : \E x, y \in RetainedAt(i, id) :
         events[x].Link # events[y].Link
    /\ \E x \in 1..i : ~Retained(kind, events[x])

----------------------------------------------------------------------------
(* buildProfile's claims *)

Range(q) == {q[x] : x \in 1..Len(q)}

\* The frames buildProfile has consumed so far: those of the Records done and
\* the first j of the current Record.
FramesSeen ==
    UNION {Range(prof[k].stk) : k \in Range(done)}
    \cup (IF cur = 0 THEN {} ELSE {prof[cur].stk[x] : x \in 1..j})

\* The frames of all Records of the map.
FramesOfMap == UNION {Range(prof[k].stk) : k \in DOMAIN prof}

\* Every pointer to a Location held by a Sample or by sloc.
LocationRefs == UNION {Range(bld.Sample[x].Location) : x \in 1..Len(bld.Sample)} \cup Range(bld.sloc)

TimesIn(q, v) == Cardinality({x \in 1..Len(q) : q[x] = v})

\* C3 as claimed: the Profile returned has as many Functions as there are
\* distinct (file, name) pairs among the frames of all Records.
C3_FunctionPerFileName ==
    (bld.called /\ pc = "write") =>
        Len(bld.Function) = Cardinality({<<f.File, f.Fn>> : f \in FramesOfMap})

\* What reading a Location gives: Address, Line[0].Function.Filename,
\* Line[0].Function.Name, Line[0].Line.
ReadLocation(b, ptr) ==
    LET loc == b.locHeap[ptr]
        fn  == b.fnHeap[loc.Line[1].Function]
    IN  [PC |-> loc.Address, File |-> fn.Filename, Fn |-> fn.Name, Line |-> loc.Line[1].Line]

ReadSample(b, smp) == [x \in 1..Len(smp.Location) |-> ReadLocation(b, smp.Location[x])]

\* C4 as claimed: the Sample of every Record processed reads back as the
\* Record's stack, frame by frame.
C4_RoundTrip ==
    bld.called =>
        \A x \in 1..Len(bld.Sample) : ReadSample(bld, bld.Sample[x]) = prof[done[x]].stk

\* The content of a Profile, whatever its IDs and the order of its Samples.
FunctionContent(b) ==
    {<<b.fnHeap[b.Function[x]].Name, b.fnHeap[b.Function[x]].Filename>> : x \in 1..Len(b.Function)}

LocationContent(b) == {ReadLocation(b, b.Location[x]) : x \in 1..Len(b.Location)}

SampleContentAt(b, x) == <<b.Sample[x].Value, ReadSample(b, b.Sample[x])>>

SampleContent(b) ==
    LET S == {SampleContentAt(b, x) : x \in 1..Len(b.Sample)}
    IN  [v \in S |-> Cardinality({x \in 1..Len(b.Sample) : SampleContentAt(b, x) = v})]

Content(b) ==
    [Function |-> FunctionContent(b), Location |-> LocationContent(b), Sample |-> SampleContent(b)]

\* The orders in which a map with the keys K may be iterated.
Orders(K) ==
    {o \in [1..Cardinality(K) -> K] : \A x, y \in 1..Cardinality(K) : o[x] = o[y] => x = y}

\* C5 as claimed: the Profile built has the content of the Profile any other
\* iteration order of the same Record map builds.
C5_SameContentAnyOrder ==
    (bld.called /\ pc = "write") =>
        \A o \in Orders(DOMAIN prof) : Content(BuildProfile(prof, o)) = Content(bld)

\* C6: at every step of buildProfile the Location list holds one Location per
\* pc seen so far and no two with one Address, a pc is referenced through one
\* Location only, every Location referenced is in the Location list once,
\* every Function referenced by a Location is in the Function list once, and
\* there are as many Samples as Records processed.
C6_ListsDeduplicated ==
    bld.called =>
        /\ \A x, y \in 1..Len(bld.Location) :
             bld.locHeap[bld.Location[x]].Address = bld.locHeap[bld.Location[y]].Address => x = y
        /\ {bld.locHeap[bld.Location[x]].Address : x \in 1..Len(bld.Location)}
             = {f.PC : f \in FramesSeen}
        /\ \A r1, r2 \in LocationRefs :
             bld.locHeap[r1].Address = bld.locHeap[r2].Address => r1 = r2
        /\ \A r \in LocationRefs : TimesIn(bld.Location, r) = 1
        /\ \A x \in 1..Len(bld.locHeap) :
             TimesIn(bld.Function, bld.locHeap[x].Line[1].Function) = 1
        /\ \A f \in FramesSeen : f.PC \in DOMAIN bld.locs /\ bld.locs[f.PC] \in LocationRefs
        /\ Len(bld.Sample) = Len(done)

\* C6 witness: two Records done, the second reaching a pc the first had
\* reached, and two Locations in the list.
C6_Witness ==
    /\ bld.called
    /\ Len(done) = 2
    /\ Len(bld.Location) = 2
    /\ \E f \in Range(prof[done[1]].stk) : \E g \in Range(prof[done[2]].stk) : f.PC = g.PC

\* C10: at every step of buildProfile the k-th Function of the list has ID k
\* and the k-th Location has ID k.
C10_DenseIDs ==
    bld.called =>
        /\ \A x \in 1..Len(bld.Function) : bld.fnHeap[bld.Function[x]].ID = x
        /\ \A x \in 1..Len(bld.Location) : bld.locHeap[bld.Location[x]].ID = x

\* C10 witness: buildProfile is in the middle of a Record with two Functions
\* and two Locations made.
C10_Witness ==
    /\ bld.called
    /\ cur # 0
    /\ Len(bld.Function) = 2
    /\ Len(bld.Location) = 2

====
